---- MODULE Spec2Model ----
(***************************************************************************)
(* A model of pylitterbot/utils.py: the redactor (redact), the codec       *)
(* (encode / decode), the timestamp parser (to_timestamp) and round_time.  *)
(* Every function is pure; each gets a specification whose initial states  *)
(* draw its inputs from bounded sets and whose actions apply it.           *)
(***************************************************************************)
EXTENDS Integers, Sequences, FiniteSets, TLC

VARIABLES
    data,       \* redact: the argument
    out,        \* redact: redact(data)
    out2,       \* redact: redact(redact(data))
    rstage      \* redact: "init", "once", "twice"

redactVars == <<data, out, out2, rstage>>

VARIABLES
    heap,       \* redact on the heap: the objects, by address
    heapBefore, \* the heap when redact was called
    arg,        \* the argument: a scalar or a reference
    ret,        \* the value returned
    hstage      \* "init", "done"

heapVars == <<heap, heapBefore, arg, ret, hstage>>

VARIABLES
    timestamp,  \* to_timestamp: the argument
    steps,      \* to_timestamp: the values its variable timestamp took, in order
    parsed,     \* to_timestamp: what the call returned or raised
    tstage      \* "init", "done"

timeVars == <<timestamp, steps, parsed, tstage>>

VARIABLES
    plain,      \* encode: the argument, a str or a dict
    encoded,    \* encode(plain): the str returned, or the exception
    decoded,    \* decode(encoded): the str returned, or the exception
    cstage      \* "init", "encoded", "raised", "decoded"

codecVars == <<plain, encoded, decoded, cstage>>

VARIABLES
    moment,     \* round_time: the argument _datetime, a datetime or None
    now,        \* round_time: what utcnow() returns
    round_to,   \* round_time: the argument round_to
    rounded,    \* round_time: the datetime returned
    mstage      \* "init", "done"

roundVars == <<moment, now, round_to, rounded, mstage>>

(***************************************************************************)
(* NestedValue: a Python value as redact sees it.  Every value is a record *)
(* of one layout, tagged by t: "null" (None), "str", "num", "bool", "list" *)
(* and "map" (a dict: keys in insertion order, items the values in the     *)
(* same order).                                                            *)
(***************************************************************************)
Null == [t |-> "null", s |-> "", n |-> 0, keys |-> <<>>, items |-> <<>>]
Str(s) == [t |-> "str", s |-> s, n |-> 0, keys |-> <<>>, items |-> <<>>]
Num(n) == [t |-> "num", s |-> "", n |-> n, keys |-> <<>>, items |-> <<>>]
Bool(b) == [t |-> "bool", s |-> "", n |-> IF b THEN 1 ELSE 0, keys |-> <<>>, items |-> <<>>]
List(items) == [t |-> "list", s |-> "", n |-> 0, keys |-> <<>>, items |-> items]
Map(keys, items) == [t |-> "map", s |-> "", n |-> 0, keys |-> keys, items |-> items]

IsMapping(v) == v.t = "map"
IsList(v) == v.t = "list"

REDACTED == "**REDACTED**"
REDACT_FIELDS ==
    {"token", "idToken", "refreshToken", "userId", "userEmail", "sessionId",
     "oneSignalPlayerId", "deviceId", "id", "litterRobotId", "unitId",
     "litterRobotSerial", "serial"}

(***************************************************************************)
(* redact.  RedactEntry is one turn of the loop over redacted.items(): the *)
(* value the key holds after the turn.                                     *)
(***************************************************************************)
RECURSIVE redact(_)

\* The elif chain with the recursion tested before the sensitive key.
RedactEntryRecursionFirst(key, value) ==
    IF value = Null THEN value
    ELSE IF value = Str("") THEN value
    ELSE IF IsMapping(value) THEN redact(value)
    ELSE IF IsList(value) THEN List([i \in 1..Len(value.items) |-> redact(value.items[i])])
    ELSE IF key \in REDACT_FIELDS THEN Str(REDACTED)
    ELSE value

\* The loop without its test for the empty string.
RedactEntryNoEmptySkip(key, value) ==
    IF value = Null THEN value
    ELSE IF key \in REDACT_FIELDS THEN Str(REDACTED)
    ELSE IF IsMapping(value) THEN redact(value)
    ELSE IF IsList(value) THEN List([i \in 1..Len(value.items) |-> redact(value.items[i])])
    ELSE value

\* A list value redacted as a whole and wrapped: [redact(value)].
RedactEntryWrapsList(key, value) ==
    IF value = Null THEN value
    ELSE IF value = Str("") THEN value
    ELSE IF key \in REDACT_FIELDS THEN Str(REDACTED)
    ELSE IF IsMapping(value) THEN redact(value)
    ELSE IF IsList(value) THEN List(<<redact(value)>>)
    ELSE value

RedactEntry(key, value) ==
    IF value = Null THEN value
    ELSE IF value = Str("") THEN value
    ELSE IF key \in REDACT_FIELDS THEN Str(REDACTED)
    ELSE IF IsMapping(value) THEN redact(value)
    ELSE IF IsList(value) THEN List([i \in 1..Len(value.items) |-> redact(value.items[i])])
    ELSE value

redact(d) ==
    IF ~(IsMapping(d) \/ IsList(d)) THEN d
    ELSE IF IsList(d) THEN List([i \in 1..Len(d.items) |-> redact(d.items[i])])
    ELSE Map(d.keys, [i \in 1..Len(d.keys) |-> RedactEntry(d.keys[i], d.items[i])])


(***************************************************************************)
(* redact on a heap, for what it does to the objects it is given.  The     *)
(* heap is a sequence of container objects, an object's address its index; *)
(* an object's items are scalars or references Ref(a).  A call returns the *)
(* heap it leaves and the value it returns.                                *)
(***************************************************************************)
Ref(a) == [t |-> "ref", s |-> "", n |-> a, keys |-> <<>>, items |-> <<>>]
IsRef(v) == v.t = "ref"
ListObj(items) == [t |-> "list", keys |-> <<>>, items |-> items]

\* A new object on the heap, and its address.
Alloc(h, obj) == [h |-> Append(h, obj), a |-> Len(h) + 1]

\* redacted = data: no copy, the loop writes into the argument.
NoCopyOfMapping(h, a) == [h |-> h, a |-> a]

\* redacted = {**data}: a new dict with the keys and values of h[a].
CopyMapping(h, a) == Alloc(h, h[a])

RECURSIVE RedactOnHeap(_, _), RedactItems(_, _, _, _), RedactEntries(_, _, _)

\* [redact(val) for val in items]: the heap left and the redacted items,
\* from item i on, done being the results so far.
RedactItems(h, items, i, done) ==
    IF i > Len(items) THEN [h |-> h, items |-> done]
    ELSE LET r == RedactOnHeap(h, items[i])
         IN  RedactItems(r.h, items, i + 1, Append(done, r.v))

\* The loop over redacted.items(), redacted being the object at a, from
\* entry i on.
RedactEntries(h, a, i) ==
    IF i > Len(h[a].keys) THEN h
    ELSE LET key == h[a].keys[i]
             value == h[a].items[i]
         IN  IF value = Null THEN RedactEntries(h, a, i + 1)
             ELSE IF value = Str("") THEN RedactEntries(h, a, i + 1)
             ELSE IF key \in REDACT_FIELDS
             THEN RedactEntries([h EXCEPT ![a].items[i] = Str(REDACTED)], a, i + 1)
             ELSE IF IsRef(value) /\ h[value.n].t = "map"
             THEN LET r == RedactOnHeap(h, value)
                  IN  RedactEntries([r.h EXCEPT ![a].items[i] = r.v], a, i + 1)
             ELSE IF IsRef(value) /\ h[value.n].t = "list"
             THEN LET r == RedactItems(h, h[value.n].items, 1, <<>>)
                      new == Alloc(r.h, ListObj(r.items))
                  IN  RedactEntries([new.h EXCEPT ![a].items[i] = Ref(new.a)], a, i + 1)
             ELSE RedactEntries(h, a, i + 1)

RedactOnHeap(h, d) ==
    IF ~IsRef(d) THEN [h |-> h, v |-> d]
    ELSE IF h[d.n].t = "list"
    THEN LET r == RedactItems(h, h[d.n].items, 1, <<>>)
             new == Alloc(r.h, ListObj(r.items))
         IN  [h |-> new.h, v |-> Ref(new.a)]
    ELSE LET redacted == CopyMapping(h, d.n)
         IN  [h |-> RedactEntries(redacted.h, redacted.a, 1), v |-> Ref(redacted.a)]

(***************************************************************************)
(* to_timestamp.  A string is a sequence of one-character strings; the     *)
(* argument is None or a string.  A call ends in one of: None returned     *)
(* ("none"), a datetime returned ("datetime": its fields, whether it has a *)
(* tzinfo, and the tzinfo's offset in seconds) or ValueError raised        *)
(* ("error").                                                              *)
(***************************************************************************)
NoneArg == [none |-> TRUE, text |-> <<>>]
Text(chars) == [none |-> FALSE, text |-> chars]

ReturnedNone ==
    [kind |-> "none", year |-> 0, month |-> 0, day |-> 0, hour |-> 0, minute |-> 0,
     second |-> 0, microsecond |-> 0, aware |-> FALSE, utcoffset |-> 0]
RaisedValueError ==
    [kind |-> "error", year |-> 0, month |-> 0, day |-> 0, hour |-> 0, minute |-> 0,
     second |-> 0, microsecond |-> 0, aware |-> FALSE, utcoffset |-> 0]
DateTime(date, time, aware, utcoffset) ==
    [kind |-> "datetime", year |-> date[1], month |-> date[2], day |-> date[3],
     hour |-> time[1], minute |-> time[2], second |-> time[3], microsecond |-> time[4],
     aware |-> aware, utcoffset |-> utcoffset]

DigitChars == <<"0", "1", "2", "3", "4", "5", "6", "7", "8", "9">>
IsDigit(c) == \E i \in 1..Len(DigitChars) : DigitChars[i] = c
DigitValue(c) == (CHOOSE i \in 1..Len(DigitChars) : DigitChars[i] = c) - 1
AllDigits(chars) == \A i \in 1..Len(chars) : IsDigit(chars[i])

\* int(chars), chars being decimal digits
RECURSIVE IntOf(_)
IntOf(chars) ==
    IF chars = <<>> THEN 0
    ELSE IntOf(SubSeq(chars, 1, Len(chars) - 1)) * Len(DigitChars) + DigitValue(chars[Len(chars)])

\* sub in text
Contains(text, sub) ==
    \E i \in 1..(Len(text) - Len(sub) + 1) : SubSeq(text, i, i + Len(sub) - 1) = sub

NotZ(c) == c # "Z"
\* timestamp.replace("Z", "") keeping only a Z that is not the last character.
ReplaceFinalZOnly(text) ==
    IF text # <<>> /\ text[Len(text)] = "Z" THEN SubSeq(text, 1, Len(text) - 1) ELSE text
\* timestamp.replace("Z", "")
ReplaceZ(text) == SelectSeq(text, NotZ)

UTC_OFFSET == <<"+", "0", "0", ":", "0", "0">>

\* ljust(7, "0")[:7], the 7
FractionWidth == 7

\* The number of digits of text from position i on.
DigitRun(text, i) ==
    CHOOSE n \in 0..(Len(text) - i + 1) :
        /\ AllDigits(SubSeq(text, i, i + n - 1))
        /\ i + n > Len(text) \/ ~IsDigit(text[i + n])

\* m.group().ljust(6, "0")[:6]: one digit short.
PadFractionOneShort(group) ==
    LET padded == group \o [i \in 1..(FractionWidth - 1 - Len(group)) |-> "0"]
    IN  SubSeq(padded, 1, FractionWidth - 1)

\* m.group().ljust(7, "0")[:7]
PadFraction(group) ==
    LET padded == group \o [i \in 1..(FractionWidth - Len(group)) |-> "0"]
    IN  SubSeq(padded, 1, FractionWidth)

\* text[i] is a "." with a digit after it
FractionAt(text, i) == text[i] = "." /\ i < Len(text) /\ IsDigit(text[i + 1])

\* re.sub(r"(\.\d+)", ..., text): every "." followed by digits, leftmost
\* first and as many digits as there are, replaced; from position i on.
RECURSIVE SubFractions(_, _)
SubFractions(text, i) ==
    IF \A j \in i..Len(text) : ~FractionAt(text, j) THEN SubSeq(text, i, Len(text))
    ELSE LET m == CHOOSE j \in i..Len(text) :
                      FractionAt(text, j) /\ \A k \in i..(j - 1) : ~FractionAt(text, k)
             n == DigitRun(text, m + 1)
         IN  SubSeq(text, i, m - 1) \o PadFraction(SubSeq(text, m, m + n))
             \o SubFractions(text, m + n + 1)

(***************************************************************************)
(* datetime.fromisoformat, as Lib/datetime.py of Python 3.7 to 3.10 has    *)
(* it: YYYY-MM-DD[*HH[:MM[:SS[.fff[fff]]]][+HH:MM[:SS[.ffffff]]]], then    *)
(* the datetime constructor's range checks.  A parse gives ok and what was *)
(* read.                                                                   *)
(***************************************************************************)
IsLeap(year) == year % 4 = 0 /\ (year % 100 # 0 \/ year % 400 = 0)
DaysInMonth(year, month) ==
    IF month = 2 THEN (IF IsLeap(year) THEN 29 ELSE 28)
    ELSE IF month \in {4, 6, 9, 11} THEN 30 ELSE 31

\* _parse_isoformat_date, of exactly 10 characters
ParseIsoformatDate(d) ==
    IF /\ AllDigits(SubSeq(d, 1, 4)) /\ d[5] = "-"
       /\ AllDigits(SubSeq(d, 6, 7)) /\ d[8] = "-"
       /\ AllDigits(SubSeq(d, 9, 10))
    THEN [ok |-> TRUE,
          v |-> <<IntOf(SubSeq(d, 1, 4)), IntOf(SubSeq(d, 6, 7)), IntOf(SubSeq(d, 9, 10))>>]
    ELSE [ok |-> FALSE, v |-> <<0, 0, 0>>]

Bad == [ok |-> FALSE, v |-> <<0, 0, 0, 0>>]

\* _parse_hh_mm_ss_ff: HH[:MM[:SS[.fff[fff]]]]
ParseHhMmSsFf(t) ==
    LET n == Len(t)
        two(i) == IF n >= i + 1 /\ AllDigits(SubSeq(t, i, i + 1))
                  THEN IntOf(SubSeq(t, i, i + 1)) ELSE -1
    IN  IF two(1) < 0 THEN Bad
        ELSE IF n = 2 THEN [ok |-> TRUE, v |-> <<two(1), 0, 0, 0>>]
        ELSE IF t[3] # ":" \/ two(4) < 0 THEN Bad
        ELSE IF n = 5 THEN [ok |-> TRUE, v |-> <<two(1), two(4), 0, 0>>]
        ELSE IF t[6] # ":" \/ two(7) < 0 THEN Bad
        ELSE IF n = 8 THEN [ok |-> TRUE, v |-> <<two(1), two(4), two(7), 0>>]
        ELSE IF t[9] # "." \/ (n - 9) \notin {3, 6} \/ ~AllDigits(SubSeq(t, 10, n)) THEN Bad
        ELSE [ok |-> TRUE,
              v |-> <<two(1), two(4), two(7),
                      IF n - 9 = 3 THEN IntOf(SubSeq(t, 10, n)) * 1000
                      ELSE IntOf(SubSeq(t, 10, n))>>]

\* tstr.find("-") + 1 or tstr.find("+") + 1: 0 when there is neither
FirstOf(t, c) == IF \E i \in 1..Len(t) : t[i] = c
                 THEN CHOOSE i \in 1..Len(t) : t[i] = c /\ \A j \in 1..(i - 1) : t[j] # c
                 ELSE 0
TzPos(t) == IF FirstOf(t, "-") # 0 THEN FirstOf(t, "-") ELSE FirstOf(t, "+")

\* _parse_isoformat_time: the time's fields, whether a zone was given, its
\* offset in seconds.
ParseIsoformatTime(t) ==
    LET tzPos == TzPos(t)
        time == ParseHhMmSsFf(IF tzPos > 0 THEN SubSeq(t, 1, tzPos - 1) ELSE t)
        tzstr == SubSeq(t, tzPos + 1, Len(t))
        tz == ParseHhMmSsFf(tzstr)
        sign == IF t[tzPos] = "-" THEN -1 ELSE 1
        none == [ok |-> FALSE, v |-> <<0, 0, 0, 0>>, aware |-> FALSE, utcoffset |-> 0]
    IN  IF Len(t) < 2 \/ ~time.ok THEN none
        ELSE IF tzPos = 0 THEN [ok |-> TRUE, v |-> time.v, aware |-> FALSE, utcoffset |-> 0]
        ELSE IF Len(tzstr) \notin {5, 8, 15} \/ ~tz.ok THEN none
        ELSE IF tz.v[1] * 3600 + tz.v[2] * 60 + tz.v[3] >= 24 * 3600 THEN none
        ELSE [ok |-> TRUE, v |-> time.v, aware |-> TRUE,
              utcoffset |-> sign * (tz.v[1] * 3600 + tz.v[2] * 60 + tz.v[3])]

FromIsoFormat(text) ==
    IF Len(text) < 10 THEN RaisedValueError
    ELSE LET date == ParseIsoformatDate(SubSeq(text, 1, 10))
             tstr == SubSeq(text, 12, Len(text))
             time == ParseIsoformatTime(tstr)
         IN  IF \/ ~date.ok
                \/ date.v[1] < 1
                \/ date.v[2] \notin 1..12
                \/ date.v[3] \notin 1..DaysInMonth(date.v[1], date.v[2])
             THEN RaisedValueError
             ELSE IF tstr = <<>> THEN DateTime(date.v, <<0, 0, 0, 0>>, FALSE, 0)
             ELSE IF ~time.ok \/ time.v[1] > 23 \/ time.v[2] > 59 \/ time.v[3] > 59
             THEN RaisedValueError
             ELSE DateTime(date.v, time.v, time.aware, time.utcoffset)

\* to_timestamp: the values of its variable timestamp, in order, and its
\* result.
ToTimestamp(ts) ==
    IF ts.none \/ ts.text = <<>> THEN [steps |-> <<>>, result |-> ReturnedNone]
    ELSE LET noZ == IF Contains(ts.text, <<"Z">>) THEN ReplaceZ(ts.text) ELSE ts.text
             offset == IF ~Contains(noZ, UTC_OFFSET) THEN noZ \o UTC_OFFSET ELSE noZ
             fraction == SubFractions(offset, 1)
         IN  [steps |-> <<ts.text, noZ, offset, fraction>>,
              result |-> FromIsoFormat(fraction)]

(***************************************************************************)
(* encode and decode.  A str is a sequence of code points, bytes are a     *)
(* sequence of numbers below 256.  A step gives ok and what it returned,   *)
(* or not ok when it raised.                                               *)
(***************************************************************************)
Returned(text) == [ok |-> TRUE, text |-> text]
Raised == [ok |-> FALSE, text |-> <<>>]

IsSurrogate(cp) == cp >= 55296 /\ cp <= 57343

\* str.encode("utf-8") of one code point that is no surrogate
Utf8Bytes(cp) ==
    IF cp < 128 THEN <<cp>>
    ELSE IF cp < 2048 THEN <<192 + (cp \div 64), 128 + (cp % 64)>>
    ELSE IF cp < 65536
    THEN <<224 + (cp \div 4096), 128 + ((cp \div 64) % 64), 128 + (cp % 64)>>
    ELSE <<240 + (cp \div 262144), 128 + ((cp \div 4096) % 64),
           128 + ((cp \div 64) % 64), 128 + (cp % 64)>>

\* The sequences of seqs, from the i-th to the j-th, one after the other.
RECURSIVE Flatten(_, _, _)
Flatten(seqs, i, j) ==
    IF i > j THEN <<>>
    ELSE IF i = j THEN seqs[i]
    ELSE Flatten(seqs, i, (i + j) \div 2) \o Flatten(seqs, (i + j) \div 2 + 1, j)

\* value.encode(ENCODING): UnicodeEncodeError on a surrogate
Utf8Encode(text) ==
    IF \E i \in 1..Len(text) : IsSurrogate(text[i]) THEN Raised
    ELSE Returned(Flatten([i \in 1..Len(text) |-> Utf8Bytes(text[i])], 1, Len(text)))

IsContinuation(bytes, i) == i <= Len(bytes) /\ bytes[i] >= 128 /\ bytes[i] <= 191

\* The bytes that the character starting with byte b takes, 0 when b starts
\* none.
Utf8Width(b) ==
    IF b < 128 THEN 1
    ELSE IF b >= 194 /\ b <= 223 THEN 2
    ELSE IF b >= 224 /\ b <= 239 THEN 3
    ELSE IF b >= 240 /\ b <= 244 THEN 4
    ELSE 0

\* The code point of the character of w bytes at byte i.
Utf8CodePoint(bytes, i, w) ==
    IF w = 1 THEN bytes[i]
    ELSE IF w = 2 THEN (bytes[i] - 192) * 64 + (bytes[i + 1] - 128)
    ELSE IF w = 3
    THEN (bytes[i] - 224) * 4096 + (bytes[i + 1] - 128) * 64 + (bytes[i + 2] - 128)
    ELSE (bytes[i] - 240) * 262144 + (bytes[i + 1] - 128) * 4096
         + (bytes[i + 2] - 128) * 64 + (bytes[i + 3] - 128)

\* bytes.decode(ENCODING), strict: UnicodeDecodeError on a stray or missing
\* continuation byte, an overlong form, a surrogate or a code point past
\* U+10FFFF.  The characters start at the bytes that continue none.
Utf8Decode(bytes) ==
    LET starts(i) == ~IsContinuation(bytes, i)
        lead == SelectSeq([i \in 1..Len(bytes) |-> i], starts)
        wellFormed(i) ==
            LET w == Utf8Width(bytes[i])
                cp == Utf8CodePoint(bytes, i, w)
            IN  /\ w # 0
                /\ \A k \in 1..(w - 1) : IsContinuation(bytes, i + k)
                /\ ~IsContinuation(bytes, i + w)
                /\ w = 3 => cp >= 2048 /\ ~IsSurrogate(cp)
                /\ w = 4 => cp >= 65536 /\ cp <= 1114111
    IN  IF /\ bytes # <<>> => starts(1)
           /\ \A k \in 1..Len(lead) : wellFormed(lead[k])
        THEN Returned([k \in 1..Len(lead) |->
                         Utf8CodePoint(bytes, lead[k], Utf8Width(bytes[lead[k]]))])
        ELSE Raised

\* The base64 alphabet: A-Z, a-z, 0-9, "+", "/"; "=" pads.
B64Char(i) ==
    IF i < 26 THEN 65 + i
    ELSE IF i < 52 THEN 97 + (i - 26)
    ELSE IF i < 62 THEN 48 + (i - 52)
    ELSE IF i = 62 THEN 43 ELSE 47
B64Pad == 61
\* 64 for a character outside the alphabet
B64Index(c) == IF \E i \in 0..63 : B64Char(i) = c THEN CHOOSE i \in 0..63 : B64Char(i) = c ELSE 64

\* The j-th character of b64encode(bytes): three bytes give four characters,
\* B64Pad where the last group has no byte to give.
B64EncodedChar(bytes, j) ==
    LET g == 3 * ((j - 1) \div 4)
        b1 == bytes[g + 1]
        b2 == IF g + 2 <= Len(bytes) THEN bytes[g + 2] ELSE 0
        b3 == IF g + 3 <= Len(bytes) THEN bytes[g + 3] ELSE 0
        r == (j - 1) % 4
    IN  IF r = 0 THEN B64Char(b1 \div 4)
        ELSE IF r = 1 THEN B64Char((b1 % 4) * 16 + (b2 \div 16))
        ELSE IF r = 2
        THEN (IF g + 2 > Len(bytes) THEN B64Pad ELSE B64Char((b2 % 16) * 4 + (b3 \div 64)))
        ELSE (IF g + 3 > Len(bytes) THEN B64Pad ELSE B64Char(b3 % 64))

\* b64encode with the "=" of the last group left out.
B64EncodeUnpadded(bytes) ==
    LET chars == [j \in 1..(4 * ((Len(bytes) + 2) \div 3)) |-> B64EncodedChar(bytes, j)]
        notPad(c) == c # B64Pad
    IN  SelectSeq(chars, notPad)

\* b64encode
B64Encode(bytes) ==
    [j \in 1..(4 * ((Len(bytes) + 2) \div 3)) |-> B64EncodedChar(bytes, j)]

\* binascii.a2b_base64, not strict.  Characters outside the alphabet are
\* skipped; the data ends at the "=" that completes a group of four begun
\* by two or three characters (the "=" in a row counted), or with the
\* input; binascii.Error when the input ends inside a group.  Four
\* characters give three bytes.
A2bBase64(chars) ==
    LET inAlphabet(i) == B64Index(chars[i]) < 64
        \* the position in the group of four before character i
        quad(i) == Cardinality({k \in 1..(i - 1) : inAlphabet(k)}) % 4
        \* the "=" up to character i since the last character of the alphabet
        pads(i) == Cardinality({k \in 1..i :
                                   /\ chars[k] = B64Pad
                                   /\ \A m \in k..i : ~inAlphabet(m)})
        ends(i) == chars[i] = B64Pad /\ quad(i) >= 2 /\ quad(i) + pads(i) >= 4
        stop == IF \E i \in 1..Len(chars) : ends(i)
                THEN CHOOSE i \in 1..Len(chars) : ends(i) /\ \A k \in 1..(i - 1) : ~ends(k)
                ELSE Len(chars) + 1
        used(i) == i < stop /\ inAlphabet(i)
        at == SelectSeq([i \in 1..Len(chars) |-> i], used)
        six == [k \in 1..Len(at) |-> B64Index(chars[at[k]])]
        count == 3 * (Len(six) \div 4)
                 + (IF Len(six) % 4 = 0 THEN 0 ELSE (Len(six) % 4) - 1)
        byte(k) ==
            LET g == 4 * ((k - 1) \div 3)
                r == (k - 1) % 3
            IN  IF r = 0 THEN six[g + 1] * 4 + (six[g + 2] \div 16)
                ELSE IF r = 1 THEN (six[g + 2] % 16) * 16 + (six[g + 3] \div 4)
                ELSE (six[g + 3] % 4) * 64 + six[g + 4]
    IN  IF stop > Len(chars) /\ Len(six) % 4 # 0 THEN Raised
        ELSE Returned([k \in 1..count |-> byte(k)])

\* b64decode(value): ValueError when the str is not ASCII
B64Decode(text) ==
    IF \E i \in 1..Len(text) : text[i] >= 128 THEN Raised
    ELSE A2bBase64(text)

(***************************************************************************)
(* json.dumps of a dict, with its defaults: ", " and ": " between items,   *)
(* every character outside " " to "~" escaped.  A JSON value is a record   *)
(* tagged by t: "null", "bool", "int", "str" (text: code points), "list",  *)
(* "dict" (keys: strs, in insertion order).                                *)
(***************************************************************************)
JNull == [t |-> "null", n |-> 0, text |-> <<>>, keys |-> <<>>, items |-> <<>>]
JBool(b) == [t |-> "bool", n |-> IF b THEN 1 ELSE 0, text |-> <<>>, keys |-> <<>>, items |-> <<>>]
JInt(n) == [t |-> "int", n |-> n, text |-> <<>>, keys |-> <<>>, items |-> <<>>]
JStr(text) == [t |-> "str", n |-> 0, text |-> text, keys |-> <<>>, items |-> <<>>]
JList(items) == [t |-> "list", n |-> 0, text |-> <<>>, keys |-> <<>>, items |-> items]
JDict(keys, items) == [t |-> "dict", n |-> 0, text |-> <<>>, keys |-> keys, items |-> items]

HexDigit(d) == IF d < 10 THEN 48 + d ELSE 97 + (d - 10)
\* "\\u{0:04x}".format(n)
UEscape(n) ==
    <<92, 117, HexDigit(n \div 4096), HexDigit((n \div 256) % 16),
      HexDigit((n \div 16) % 16), HexDigit(n % 16)>>

\* py_encode_basestring_ascii, one code point
JsonEscape(cp) ==
    IF cp = 34 THEN <<92, 34>>
    ELSE IF cp = 92 THEN <<92, 92>>
    ELSE IF cp = 10 THEN <<92, 110>>
    ELSE IF cp = 13 THEN <<92, 114>>
    ELSE IF cp = 9 THEN <<92, 116>>
    ELSE IF cp = 12 THEN <<92, 102>>
    ELSE IF cp = 8 THEN <<92, 98>>
    ELSE IF cp >= 32 /\ cp <= 126 THEN <<cp>>
    ELSE IF cp < 65536 THEN UEscape(cp)
    ELSE UEscape(55296 + (((cp - 65536) \div 1024) % 1024))
         \o UEscape(56320 + ((cp - 65536) % 1024))

JsonString(text) ==
    <<34>> \o Flatten([i \in 1..Len(text) |-> JsonEscape(text[i])], 1, Len(text)) \o <<34>>

\* str(n) of an int
RECURSIVE Digits(_)
Digits(n) == IF n < 10 THEN <<48 + n>> ELSE Digits(n \div 10) \o <<48 + (n % 10)>>
JsonInt(n) == IF n < 0 THEN <<45>> \o Digits(-n) ELSE Digits(n)

\* ", ".join(parts)
RECURSIVE Join(_)
Join(parts) ==
    IF parts = <<>> THEN <<>>
    ELSE IF Len(parts) = 1 THEN parts[1]
    ELSE parts[1] \o <<44, 32>> \o Join(Tail(parts))

RECURSIVE JsonDumps(_)
JsonDumps(v) ==
    IF v.t = "null" THEN <<110, 117, 108, 108>>
    ELSE IF v.t = "bool"
    THEN (IF v.n = 1 THEN <<116, 114, 117, 101>> ELSE <<102, 97, 108, 115, 101>>)
    ELSE IF v.t = "int" THEN JsonInt(v.n)
    ELSE IF v.t = "str" THEN JsonString(v.text)
    ELSE IF v.t = "list"
    THEN <<91>> \o Join([i \in 1..Len(v.items) |-> JsonDumps(v.items[i])]) \o <<93>>
    ELSE <<123>>
         \o Join([i \in 1..Len(v.items) |->
                    JsonString(v.keys[i]) \o <<58, 32>> \o JsonDumps(v.items[i])])
         \o <<125>>

\* encode(value)
Encode(v) ==
    LET text == IF v.t = "dict" THEN JsonDumps(v) ELSE v.text
        bytes == Utf8Encode(text)
    IN  IF ~bytes.ok THEN Raised
        ELSE Utf8Decode(B64Encode(bytes.text))

\* decode(value)
Decode(text) ==
    LET bytes == B64Decode(text)
    IN  IF ~bytes.ok THEN Raised ELSE Utf8Decode(bytes.text)

(***************************************************************************)
(* round_time.  A datetime is the time since 1970-01-01T00:00:00+00:00 as  *)
(* timedelta holds it (days, seconds, microseconds) and its tzinfo; None   *)
(* is the record with given FALSE.  A float of binary64 is days, seconds   *)
(* and frac / 2^bits of a second, bits being the bits of its 53 that are   *)
(* left of the seconds: the floats between 2^29 and 2^35, that is the      *)
(* datetimes from 1987 to 3058.                                            *)
(***************************************************************************)
NoDatetime == [given |-> FALSE, days |-> 0, seconds |-> 0, microseconds |-> 0, tzinfo |-> "UTC"]
Datetime(days, seconds, microseconds, tzinfo) ==
    [given |-> TRUE, days |-> days, seconds |-> seconds, microseconds |-> microseconds,
     tzinfo |-> tzinfo]

RECURSIVE Pow2(_)
Pow2(n) == IF n = 0 THEN 1 ELSE 2 * Pow2(n - 1)

\* days and seconds come before days2 and seconds2
Before(days, seconds, days2, seconds2) ==
    days < days2 \/ (days = days2 /\ seconds < seconds2)

\* The bits a binary64 has for the fraction of a second at days and
\* seconds: 52 less the exponent.  2^30 seconds are 12427 days and 49024
\* seconds, and so on.
FractionBits(days, seconds) ==
    IF Before(days, seconds, 12427, 49024) THEN 23
    ELSE IF Before(days, seconds, 24855, 11648) THEN 22
    ELSE IF Before(days, seconds, 49710, 23296) THEN 21
    ELSE IF Before(days, seconds, 99420, 46592) THEN 20
    ELSE IF Before(days, seconds, 198841, 6784) THEN 19
    ELSE 18

\* n / d to the nearest integer, to the even one of two as near
RoundHalfEven(n, d) ==
    LET q == n \div d
        r == n % d
    IN  IF 2 * r > d \/ (2 * r = d /\ q % 2 = 1) THEN q + 1 ELSE q

\* The float of days, seconds and frac / 2^bits, frac up to 2^bits or more
Carry(days, seconds, frac, bits) ==
    LET s == seconds + (frac \div Pow2(bits))
    IN  [days |-> days + (s \div 86400), seconds |-> s % 86400,
         frac |-> frac % Pow2(bits), bits |-> bits]

\* _datetime.timestamp() of an aware datetime: (_datetime - epoch)
\* .total_seconds(), the float nearest to the microseconds / 10^6.
\* microseconds * 2^bits / 10^6 is taken in two parts, 10^6 being 64 * 15625.
TotalSeconds(d) ==
    LET bits == FractionBits(d.days, d.seconds)
        frac == (d.microseconds \div 15625) * Pow2(bits - 6)
                + RoundHalfEven((d.microseconds % 15625) * Pow2(bits - 6), 15625)
    IN  Carry(d.days, d.seconds, frac, bits)

\* x + n / 2 of a float x and an int n: the float nearest to the sum
AddHalf(x, n) ==
    LET sum == Carry(x.days, x.seconds + (n \div 2),
                     x.frac + (n % 2) * Pow2(x.bits - 1), x.bits)
        bits == FractionBits(sum.days, sum.seconds)
    IN  IF bits >= x.bits THEN sum
        ELSE Carry(sum.days, sum.seconds,
                   RoundHalfEven(sum.frac, Pow2(x.bits - bits)), bits)

\* x // n * n of a float x and an int n > 0: the whole seconds of x less
\* their remainder by n, a whole number that binary64 holds exactly
FloorToMultiple(x, n) ==
    LET r == ((x.days % n) * (86400 % n) + x.seconds) % n
    IN  [days |-> x.days + ((x.seconds - r) \div 86400),
         seconds |-> (x.seconds - r) % 86400, frac |-> 0, bits |-> x.bits]

\* datetime.fromtimestamp(x, tz) of a float x that is a whole number
FromTimestamp(x, tz) == Datetime(x.days, x.seconds, 0, tz)

\* round_time(_datetime, round_to), utcnow() returning clock
RoundTime(datetimeArg, n, clock) ==
    LET d == IF ~datetimeArg.given THEN clock ELSE datetimeArg
    IN  FromTimestamp(FloorToMultiple(AddHalf(TotalSeconds(d), n), n), d.tzinfo)

(***************************************************************************)
(* The arguments: every NestedValue of at most MaxNodes nodes (a scalar,   *)
(* a list or a mapping is one node) over a few scalars and keys, and the   *)
(* specification's end-to-end example.                                     *)
(***************************************************************************)
MaxNodes == 4

Scalars == {Null, Str(""), Str("abc"), Str(REDACTED), Num(0), Bool(FALSE)}
Keys == {"token", "name"}

RECURSIVE KeySeqs(_)
KeySeqs(n) ==
    IF n = 0 THEN {<<>>}
    ELSE {Append(p[1], p[2]) :
             p \in {q \in KeySeqs(n - 1) \X Keys : \A i \in 1..(n - 1) : q[1][i] # q[2]}}

\* The values of exactly one node.
Atoms == Scalars \cup {List(<<>>), Map(<<>>, <<>>)}

\* sized[k] being the values of k nodes: the non-empty sequences of values
\* whose sizes add up to n, the first of them of size k or more.
RECURSIVE ItemSeqsFrom(_, _, _)
ItemSeqsFrom(sized, n, k) ==
    IF k > n THEN {}
    ELSE {<<p[1]>> \o p[2] :
             p \in sized[k] \X (IF k = n THEN {<<>>} ELSE ItemSeqsFrom(sized, n - k, 1))}
         \cup ItemSeqsFrom(sized, n, k + 1)

\* <<the values of 1 node, of 2 nodes, ... of n nodes>>
RECURSIVE ValuesBySize(_)
ValuesBySize(n) ==
    IF n = 1 THEN <<Atoms>>
    ELSE LET sized == ValuesBySize(n - 1)
             itemSeqs == ItemSeqsFrom(sized, n - 1, 1)
             keySeqs == UNION {KeySeqs(len) : len \in 1..Cardinality(Keys)}
         IN  Append(sized,
                    {List(items) : items \in itemSeqs} \cup
                    {Map(p[1], p[2]) :
                        p \in {q \in keySeqs \X itemSeqs : Len(q[1]) = Len(q[2])}})

Example ==
    Map(<<"token", "name", "nested">>,
        <<Str("abc"), Str("Max"),
          Map(<<"deviceId", "note">>, <<Str("d1"), Str("")>>)>>)
ExampleRedacted ==
    Map(<<"token", "name", "nested">>,
        <<Str(REDACTED), Str("Max"),
          Map(<<"deviceId", "note">>, <<Str(REDACTED), Str("")>>)>>)

\* The values of n nodes or fewer.
RECURSIVE ValuesUpTo(_, _)
ValuesUpTo(sized, n) == IF n = 0 THEN {} ELSE sized[n] \cup ValuesUpTo(sized, n - 1)

NestedValues == ValuesUpTo(ValuesBySize(MaxNodes), MaxNodes) \cup {Example}

(***************************************************************************)
(* The heap a caller has built before it calls redact: the objects of a    *)
(* NestedValue, a container's items stored before the container; with      *)
(* share, equal containers are one object referenced twice.                *)
(***************************************************************************)
RECURSIVE Store(_, _, _), StoreItems(_, _, _, _, _)
StoreItems(h, items, i, done, share) ==
    IF i > Len(items) THEN [h |-> h, items |-> done]
    ELSE LET r == Store(h, items[i], share)
         IN  StoreItems(r.h, items, i + 1, Append(done, r.v), share)

Store(h, v, share) ==
    IF ~(IsMapping(v) \/ IsList(v)) THEN [h |-> h, v |-> v]
    ELSE LET r == StoreItems(h, v.items, 1, <<>>, share)
             obj == [t |-> v.t, keys |-> v.keys, items |-> r.items]
         IN  IF share /\ \E a \in 1..Len(r.h) : r.h[a] = obj
             THEN [h |-> r.h, v |-> Ref(CHOOSE a \in 1..Len(r.h) : r.h[a] = obj)]
             ELSE [h |-> Append(r.h, obj), v |-> Ref(Len(r.h) + 1)]

\* The NestedValue a heap value stands for.
RECURSIVE Deref(_, _)
Deref(h, v) ==
    IF ~IsRef(v) THEN v
    ELSE [t |-> h[v.n].t, s |-> "", n |-> 0, keys |-> h[v.n].keys,
          items |-> [i \in 1..Len(h[v.n].items) |-> Deref(h, h[v.n].items[i])]]

\* The addresses a heap value reaches.
RECURSIVE Reach(_, _)
Reach(h, v) ==
    IF ~IsRef(v) THEN {}
    ELSE {v.n} \cup UNION {Reach(h, h[v.n].items[i]) : i \in 1..Len(h[v.n].items)}

HeapInit ==
    /\ \E v \in NestedValues, share \in BOOLEAN :
          LET built == Store(<<>>, v, share)
          IN  heap = built.h /\ arg = built.v
    /\ heapBefore = heap
    /\ ret = Null
    /\ hstage = "init"

HeapIdle ==
    /\ heap = <<>>
    /\ heapBefore = <<>>
    /\ arg = Null
    /\ ret = Null
    /\ hstage = "idle"

RedactIdle ==
    /\ data = Null
    /\ out = Null
    /\ out2 = Null
    /\ rstage = "idle"

\* ret = redact(arg), on the heap
CallRedactOnHeap ==
    /\ hstage = "init"
    /\ LET r == RedactOnHeap(heap, arg)
       IN  heap' = r.h /\ ret' = r.v
    /\ hstage' = "done"
    /\ UNCHANGED <<heapBefore, arg>>
    /\ UNCHANGED <<redactVars, timeVars, codecVars, roundVars>>

(***************************************************************************)
(* The arguments of to_timestamp: None, "", and strings put together from  *)
(* a date, a separator, a time, a fraction of 1 to MaxFractionDigits       *)
(* digits and a zone suffix; the same with a "Z" put in at any position;   *)
(* and strings that are no timestamp.                                      *)
(***************************************************************************)
MaxFractionDigits == 9

Dates == {<<"2", "0", "2", "3", "-", "0", "5", "-", "0", "1">>}
Separators == {<<"T">>, <<" ">>}
Times == {<<"1", "0", ":", "0", "0", ":", "0", "0">>, <<"2", "3", ":", "5", "9", ":", "5", "9">>}
FractionSources == {<<"5", "0", "0", "0", "0", "0", "1", "2", "3", "4", "5", "6">>,
                    <<"1", "2", "3", "4", "5", "6", "7", "8", "9", "0", "1", "2">>}
Fractions ==
    {<<>>} \cup {<<".">> \o SubSeq(src, 1, n) : src \in FractionSources, n \in 1..MaxFractionDigits}
Suffixes == {<<>>, <<"Z">>, UTC_OFFSET, <<"+", "0", "5", ":", "3", "0">>,
             <<"-", "0", "4", ":", "0", "0">>, <<"-", "0", "0", ":", "0", "0">>}

WellFormed ==
    {d \o sep \o t \o f \o z :
        d \in Dates, sep \in Separators, t \in Times, f \in Fractions, z \in Suffixes}

ExampleShort == <<"2", "0", "2", "3", "-", "0", "5", "-", "0", "1", "T", "1", "0", ":", "0", "0", ":", "0", "0", ".", "5">>
ExampleLong == <<"2", "0", "2", "3", "-", "0", "5", "-", "0", "1", "T", "1", "0", ":", "0", "0", ":", "0", "0", ".", "5", "0", "0", "0", "0", "0", "1", "2", "3">>
ExampleCanonical == <<"2", "0", "2", "3", "-", "0", "5", "-", "0", "1", "T", "1", "0", ":", "0", "0", ":", "0", "0", ".", "5", "0", "0", "0", "0", "0", "+", "0", "0", ":", "0", "0">>

InsertZ(text, i) == SubSeq(text, 1, i) \o <<"Z">> \o SubSeq(text, i + 1, Len(text))
StrayZSources == {ExampleShort, <<"2", "0", "2", "3", "-", "0", "5", "-", "0", "1", "T", "1", "0", ":", "0", "0", ":", "0", "0">>, <<"2", "0", "2", "3", "-", "0", "5", "-", "0", "1", "T", "1", "0", ":", "0", "0", ":", "0", "0", "+", "0", "0", ":", "0", "0">>}
WithStrayZ == UNION {{InsertZ(text, i) : i \in 0..Len(text)} : text \in StrayZSources}

NotADate == <<"n", "o", "t", "-", "a", "-", "d", "a", "t", "e">>
Irregular ==
    {NotADate, <<"Z">>, <<"2", "0", "2", "3", "-", "0", "5", "-", "0", "1">>, <<"2", "0", "2", "3", "-", "0", "5", "-", "0", "1", "T", "1", "0", ":", "0", "0">>, <<"2", "0", "2", "3", "-", "0", "5", "-", "0", "1", "T", "1", "0">>,
     <<"2", "0", "2", "3", "-", "0", "2", "-", "2", "9", "T", "1", "0", ":", "0", "0", ":", "0", "0">>, <<"2", "0", "2", "3", "-", "0", "5", "-", "0", "1", "T", "2", "4", ":", "0", "0", ":", "0", "0">>,
     <<"2", "0", "2", "4", "-", "0", "2", "-", "2", "9", "T", "1", "0", ":", "0", "0", ":", "0", "0", ".", "1", "2", "3", "Z">>}

TimestampArgs ==
    {NoneArg, Text(<<>>)} \cup {Text(text) : text \in WellFormed \cup WithStrayZ \cup Irregular}

TimeInit ==
    /\ timestamp \in TimestampArgs
    /\ steps = <<>>
    /\ parsed = ReturnedNone
    /\ tstage = "init"

TimeIdle ==
    /\ timestamp = NoneArg
    /\ steps = <<>>
    /\ parsed = ReturnedNone
    /\ tstage = "idle"

\* parsed = to_timestamp(timestamp)
CallToTimestamp ==
    /\ tstage = "init"
    /\ LET r == ToTimestamp(timestamp)
       IN  steps' = r.steps /\ parsed' = r.result
    /\ tstage' = "done"
    /\ UNCHANGED timestamp
    /\ UNCHANGED <<redactVars, heapVars, codecVars, roundVars>>

(***************************************************************************)
(* The arguments of encode: the strs of at most MaxStringLength code       *)
(* points, among them "a", the quote, U+00E9, U+20AC, U+1F600 and the lone *)
(* surrogate U+D800; and dicts of at most MaxPairs items.                  *)
(***************************************************************************)
MaxStringLength == 2
MaxPairs == 1

CodePoints == {97, 34, 233, 8364, 128512, 55296}

RECURSIVE StringsOfLength(_)
StringsOfLength(n) ==
    IF n = 0 THEN {<<>>}
    ELSE {Append(p[1], p[2]) : p \in StringsOfLength(n - 1) \X CodePoints}
RECURSIVE StringsUpTo(_)
StringsUpTo(n) == IF n = 0 THEN {<<>>} ELSE StringsOfLength(n) \cup StringsUpTo(n - 1)
Strings == StringsUpTo(MaxStringLength)

DictKeys == {<<97>>, <<233, 34>>, <<98>>}
DictValues ==
    {JInt(1), JInt(-120), JStr(<<8364, 128512>>), JStr(<<55296>>), JNull, JBool(TRUE),
     JList(<<JInt(1), JNull, JBool(FALSE)>>), JDict(<<<<97>>>>, <<JStr(<<>>)>>)}

RECURSIVE DictsOfLength(_)
DictsOfLength(n) ==
    IF n = 0 THEN {JDict(<<>>, <<>>)}
    ELSE {JDict(Append(p[1].keys, p[2]), Append(p[1].items, p[3])) :
             p \in {q \in DictsOfLength(n - 1) \X DictKeys \X DictValues :
                       \A i \in 1..(n - 1) : q[1].keys[i] # q[2]}}
RECURSIVE DictsUpTo(_)
DictsUpTo(n) == IF n = 0 THEN DictsOfLength(0) ELSE DictsOfLength(n) \cup DictsUpTo(n - 1)
Dicts == DictsUpTo(MaxPairs)

EncodeArgs == {JStr(text) : text \in Strings} \cup Dicts

\* Texts given to decode that no encode returned: "YQ==" with its padding
\* cut, spaced and doubled, one character, a "=" first, the bytes of U+00E9,
\* a lone continuation byte and the bytes ED A0 80 of a surrogate.
DecodeArgs ==
    {<<89, 81, 61, 61>>, <<89, 81, 61>>, <<89, 81>>, <<89>>,
     <<89, 32, 81, 10, 61, 61>>, <<89, 81, 61, 61, 89, 81, 61, 61>>,
     <<61, 89, 81, 61, 61>>, <<89, 87, 73, 61, 89, 81>>, <<195, 169>>,
     <<119, 54, 107, 61>>, <<103, 65, 61, 61>>, <<55, 97, 67, 65>>}

CodecInit ==
    /\ plain \in EncodeArgs
    /\ encoded = Raised
    /\ decoded = Raised
    /\ cstage = "init"

CodecIdle ==
    /\ plain = JNull
    /\ encoded = Raised
    /\ decoded = Raised
    /\ cstage = "idle"

\* encoded = encode(plain)
CallEncode ==
    /\ cstage = "init"
    /\ encoded' = Encode(plain)
    /\ cstage' = IF Encode(plain).ok THEN "encoded" ELSE "raised"
    /\ UNCHANGED <<plain, decoded>>
    /\ UNCHANGED <<redactVars, heapVars, timeVars, roundVars>>

\* decoded = decode(encoded)
CallDecode ==
    /\ cstage = "encoded"
    /\ decoded' = Decode(encoded.text)
    /\ cstage' = "decoded"
    /\ UNCHANGED <<plain, encoded>>
    /\ UNCHANGED <<redactVars, heapVars, timeVars, roundVars>>

\* decoded = decode(text) of a text that did not come from encode
CallDecodeOf ==
    /\ cstage = "init"
    /\ \E text \in DecodeArgs :
          /\ encoded' = Returned(text)
          /\ decoded' = Decode(text)
    /\ cstage' = "decodedOnly"
    /\ UNCHANGED plain
    /\ UNCHANGED <<redactVars, heapVars, timeVars, roundVars>>

(***************************************************************************)
(* The arguments of round_time: nothing or a datetime of 2023-05-01 or     *)
(* 2600-01-01, at the start, near the middle and at the end of a second,   *)
(* of a minute and of the day, in UTC or at +05:30; round_to 1, 7 or 60.   *)
(***************************************************************************)
Days == {19478, 230103}
SecondsOfDay == {0, 3, 29, 30, 86399}
Microseconds == {0, 1, 499999, 500000, 500001, 999999}
Tzinfos == {"UTC", "+05:30"}
Datetimes ==
    {Datetime(q[1], q[2], q[3], q[4]) : q \in Days \X SecondsOfDay \X Microseconds \X Tzinfos}
Clock == {Datetime(19478, 36029, 999999, "UTC"), Datetime(230103, 36030, 499999, "UTC")}
RoundTos == {1, 7, 60}

RoundInit ==
    /\ moment \in Datetimes \cup {NoDatetime}
    /\ now \in Clock
    /\ round_to \in RoundTos
    /\ rounded = NoDatetime
    /\ mstage = "init"

RoundIdle ==
    /\ moment = NoDatetime
    /\ now = NoDatetime
    /\ round_to = 0
    /\ rounded = NoDatetime
    /\ mstage = "idle"

\* rounded = round_time(moment, round_to)
CallRoundTime ==
    /\ mstage = "init"
    /\ rounded' = RoundTime(moment, round_to, now)
    /\ mstage' = "done"
    /\ UNCHANGED <<moment, now, round_to>>
    /\ UNCHANGED <<redactVars, heapVars, timeVars, codecVars>>

RedactInit ==
    /\ data \in NestedValues
    /\ out = Null
    /\ out2 = Null
    /\ rstage = "init"

\* out = redact(data)
CallRedact ==
    /\ rstage = "init"
    /\ out' = redact(data)
    /\ rstage' = "once"
    /\ UNCHANGED <<data, out2>>
    /\ UNCHANGED <<heapVars, timeVars, codecVars, roundVars>>

\* out2 = redact(out): the redactor applied to its own result
CallRedactAgain ==
    /\ rstage = "once"
    /\ out2' = redact(out)
    /\ rstage' = "twice"
    /\ UNCHANGED <<data, out>>
    /\ UNCHANGED <<heapVars, timeVars, codecVars, roundVars>>

vars == <<redactVars, heapVars, timeVars, codecVars, roundVars>>

InitRedact == RedactInit /\ HeapIdle /\ TimeIdle /\ CodecIdle /\ RoundIdle

SpecRedact == InitRedact /\ [][CallRedact \/ CallRedactAgain]_vars

InitRedactOnHeap == HeapInit /\ RedactIdle /\ TimeIdle /\ CodecIdle /\ RoundIdle

SpecRedactOnHeap == InitRedactOnHeap /\ [][CallRedactOnHeap]_vars

InitTimestamp == TimeInit /\ RedactIdle /\ HeapIdle /\ CodecIdle /\ RoundIdle

SpecTimestamp == InitTimestamp /\ [][CallToTimestamp]_vars

InitCodec == CodecInit /\ RedactIdle /\ HeapIdle /\ TimeIdle /\ RoundIdle

SpecCodec == InitCodec /\ [][CallEncode \/ CallDecode \/ CallDecodeOf]_vars

InitRound == RoundInit /\ RedactIdle /\ HeapIdle /\ TimeIdle /\ CodecIdle

SpecRound == InitRound /\ [][CallRoundTime]_vars

(***************************************************************************)
(* The shape of a value: its containers, their keys and lengths, with      *)
(* every scalar replaced by one leaf.                                      *)
(***************************************************************************)
Leaf == Null

RECURSIVE Shape(_)
Shape(v) ==
    IF IsList(v) THEN List([i \in 1..Len(v.items) |-> Shape(v.items[i])])
    ELSE IF IsMapping(v) THEN Map(v.keys, [i \in 1..Len(v.items) |-> Shape(v.items[i])])
    ELSE Leaf

\* The shape of v with whatever a sensitive key holds counted as a leaf.
RECURSIVE ShapeOutsideSensitive(_)
ShapeOutsideSensitive(v) ==
    IF IsList(v) THEN List([i \in 1..Len(v.items) |-> ShapeOutsideSensitive(v.items[i])])
    ELSE IF IsMapping(v)
    THEN Map(v.keys, [i \in 1..Len(v.items) |->
                        IF v.keys[i] \in REDACT_FIELDS THEN Leaf
                        ELSE ShapeOutsideSensitive(v.items[i])])
    ELSE Leaf

\* C1 as stated: redact(v) has the shape of v (same keys in the same order,
\* same list lengths, a container wherever v has a container).
C1_ShapePreserved == rstage # "init" => Shape(out) = Shape(data)

\* C1 amended: redact(v) has the shape of v except below sensitive keys, where
\* the value, a mapping or a list included, has become a scalar; everywhere
\* else keys, their order, list lengths and nesting are those of v.
C1_ShapePreservedOutsideSensitive ==
    rstage # "init" => Shape(out) = ShapeOutsideSensitive(data)

C1_Witness ==
    /\ rstage = "once"
    /\ data = Map(<<"token", "name">>, <<List(<<>>), List(<<Str("abc")>>)>>)
    /\ out = Map(<<"token", "name">>, <<Str(REDACTED), List(<<Str("abc")>>)>>)

\* r is what the four rules, first match first, make of v at every pair
\* reached through mappings and lists.
RECURSIVE FollowsRules(_, _)
FollowsRules(v, r) ==
    IF IsList(v)
    THEN /\ IsList(r)
         /\ Len(r.items) = Len(v.items)
         /\ \A i \in 1..Len(v.items) : FollowsRules(v.items[i], r.items[i])
    ELSE IF IsMapping(v)
    THEN /\ IsMapping(r)
         /\ r.keys = v.keys
         /\ Len(r.items) = Len(v.items)
         /\ \A i \in 1..Len(v.items) :
              LET key == v.keys[i]
                  value == v.items[i]
                  got == r.items[i]
              IN  IF value = Null \/ value = Str("") THEN got = value
                  ELSE IF key \in REDACT_FIELDS THEN got = Str(REDACTED)
                  ELSE IF IsMapping(value) \/ IsList(value) THEN FollowsRules(value, got)
                  ELSE got = value
    ELSE r = v

\* C2: every key/value pair of a mapping, at any depth, is decided by the
\* first matching rule: null or "" unchanged; sensitive key -> the sentinel
\* whatever the value's type; mapping or list -> its redaction; otherwise
\* unchanged.  The specification's example redacts as it says.
C2_FirstMatchingRule ==
    rstage # "init" =>
        /\ FollowsRules(data, out)
        /\ data = Example => out = ExampleRedacted

C2_Witness ==
    /\ rstage = "once"
    /\ data = Map(<<"token", "name">>, <<Str(""), Map(<<"token">>, <<Num(0)>>)>>)
    /\ out = Map(<<"token", "name">>, <<Str(""), Map(<<"token">>, <<Str(REDACTED)>>)>>)

\* C3: redact is idempotent: redact(redact(v)) = redact(v).
C3_Idempotent == rstage = "twice" => out2 = out

C3_Witness ==
    /\ rstage = "twice"
    /\ data = Map(<<"token", "name">>, <<List(<<Num(0)>>), Str(REDACTED)>>)
    /\ out # data
    /\ out2 = Map(<<"token", "name">>, <<Str(REDACTED), Str(REDACTED)>>)

\* C4: redact does not mutate its argument: every object that was on the heap
\* at the call is as it was, and every mapping or list the result reaches is
\* a new object, for a list as for a mapping at the top.
C4_InputUntouched ==
    hstage = "done" =>
        /\ \A a \in 1..Len(heapBefore) : heap[a] = heapBefore[a]
        /\ \A a \in Reach(heap, ret) : a > Len(heapBefore)
        /\ Deref(heap, arg) = Deref(heapBefore, arg)

C4_Witness ==
    /\ hstage = "done"
    /\ Deref(heapBefore, arg) = List(<<Map(<<"token", "name">>, <<Str("abc"), List(<<>>)>>)>>)
    /\ Deref(heap, ret) = List(<<Map(<<"token", "name">>, <<Str(REDACTED), List(<<>>)>>)>>)
    /\ Len(heapBefore) = 3
    /\ Reach(heap, ret) = {4, 5, 6}

\* The heap model returns what redact returns.
HeapAgreesWithRedact ==
    hstage = "done" => Deref(heap, ret) = redact(Deref(heapBefore, arg))

(***************************************************************************)
(* to_timestamp: what a claim reads off an argument.                       *)
(***************************************************************************)
Called == tstage = "done" /\ ~timestamp.none /\ timestamp.text # <<>>

\* z is an offset of the form +HH:MM or -HH:MM
IsOffset(z) ==
    /\ Len(z) = 6
    /\ z[1] \in {"+", "-"}
    /\ IsDigit(z[2]) /\ IsDigit(z[3]) /\ z[4] = ":" /\ IsDigit(z[5]) /\ IsDigit(z[6])
EndsWithOffset(text) == Len(text) >= 6 /\ IsOffset(SubSeq(text, Len(text) - 5, Len(text)))
WithoutOffset(text) == SubSeq(text, 1, Len(text) - 6)
OffsetSeconds(z) ==
    (IF z[1] = "-" THEN -1 ELSE 1) * (IntOf(SubSeq(z, 2, 3)) * 3600 + IntOf(SubSeq(z, 5, 6)) * 60)

\* text is a date and a time of day to the second, YYYY-MM-DD?HH:MM:SS
IsDateTime(text) == Len(text) = 19 /\ FromIsoFormat(text).kind = "datetime"
\* text is a date-time, with or without a fraction of a second, and no zone
IsZoneless(text) ==
    /\ Len(text) >= 19
    /\ IsDateTime(SubSeq(text, 1, 19))
    /\ \/ Len(text) = 19
       \/ /\ Len(text) >= 21
          /\ text[20] = "."
          /\ AllDigits(SubSeq(text, 21, Len(text)))

\* C5: "+00:00" is appended only when the argument carries no offset of any
\* +HH:MM or -HH:MM form; a zone-less argument is parsed as UTC; an argument
\* that ends in an offset is parsed with that offset; and every datetime
\* returned has an offset.
C5_OffsetKeptOrUtcAppended ==
    Called =>
        LET text == timestamp.text
        IN  /\ steps[3] = (IF EndsWithOffset(text) THEN steps[2] ELSE steps[2] \o UTC_OFFSET)
            /\ IsZoneless(text) =>
                  parsed.kind = "datetime" /\ parsed.aware /\ parsed.utcoffset = 0
            /\ EndsWithOffset(text) /\ IsZoneless(WithoutOffset(text)) =>
                  /\ parsed.kind = "datetime"
                  /\ parsed.aware
                  /\ parsed.utcoffset = OffsetSeconds(SubSeq(text, Len(text) - 5, Len(text)))
            /\ parsed.kind = "datetime" => parsed.aware

\* C6: a "Z" is stripped only when it is the last character, a "Z" anywhere
\* else stays; and for a date-time text T, to_timestamp(T + "Z"),
\* to_timestamp(T + "+00:00") and to_timestamp(T) return equal instants.
C6_OnlyFinalZStripped ==
    Called =>
        LET text == timestamp.text
        IN  /\ steps[2] = ReplaceFinalZOnly(text)
            /\ IsZoneless(text) =>
                  /\ parsed.kind = "datetime"
                  /\ ToTimestamp(Text(text \o <<"Z">>)).result = parsed
                  /\ ToTimestamp(Text(text \o UTC_OFFSET)).result = parsed

\* C7: None is returned exactly for None and "", and nothing is raised for
\* them; any other argument gives an offset-aware datetime or ValueError;
\* "not-a-date" gives ValueError.
C7_NoneOnlyForAbsent ==
    tstage = "done" =>
        /\ parsed.kind = "none" <=> (timestamp.none \/ timestamp.text = <<>>)
        /\ Called => \/ parsed.kind = "error"
                     \/ parsed.kind = "datetime" /\ parsed.aware
        /\ timestamp = Text(NotADate) => parsed.kind = "error"

\* The first six of the digits, zeros added to a shorter run.
SixDigits(digits) ==
    [i \in 1..6 |-> IF i <= Len(digits) THEN digits[i] ELSE "0"]

\* text is a date-time whose seconds have a fraction, with nothing, "Z" or
\* an offset after it
HasSecondsFraction(text) ==
    /\ Len(text) >= 21
    /\ IsDateTime(SubSeq(text, 1, 19))
    /\ text[20] = "."
    /\ IsDigit(text[21])
    /\ LET rest == SubSeq(text, 21 + DigitRun(text, 21), Len(text))
       IN  rest = <<>> \/ rest = <<"Z">> \/ IsOffset(rest)

\* C8: a fraction of n >= 1 digits in the seconds is made exactly 6 digits
\* before parsing, zeros added when n < 6 and the first 6 kept when n > 6,
\* nothing else of the string changed by that step; "2023-05-01T10:00:00.5"
\* and "2023-05-01T10:00:00.500000123" give the instant of
\* "2023-05-01T10:00:00.500000+00:00".
C8_FractionMadeSixDigits ==
    Called /\ HasSecondsFraction(timestamp.text) =>
        LET before == steps[3]
            after == steps[4]
            n == DigitRun(before, 21)
            six == SixDigits(SubSeq(before, 21, 20 + n))
        IN  /\ after = SubSeq(before, 1, 20) \o six \o SubSeq(before, 21 + n, Len(before))
            /\ parsed.kind = "datetime" => parsed.microsecond = IntOf(six)
            /\ timestamp.text \in {ExampleShort, ExampleLong} =>
                  parsed = DateTime(<<2023, 5, 1>>, <<10, 0, 0, 500000>>, TRUE, 0)

C8_Witness ==
    /\ tstage = "done"
    /\ timestamp = Text(ExampleLong)
    /\ steps[4] = ExampleCanonical
    /\ parsed = DateTime(<<2023, 5, 1>>, <<10, 0, 0, 500000>>, TRUE, 0)


(***************************************************************************)
(* encode and decode                                                       *)
(***************************************************************************)
\* encode(plain) has returned or raised
Encoded == cstage \in {"encoded", "decoded", "raised"}

\* decode(encode(m)) of a dict m is the text json.dumps(m), and encode(m)
\* is encode of that text
DictGivesItsJsonText ==
    (Encoded /\ plain.t = "dict") =>
        /\ encoded = Encode(JStr(JsonDumps(plain)))
        /\ encoded.ok
        /\ cstage = "decoded" => decoded = Returned(JsonDumps(plain))

\* {"a": 1} has been encoded to "eyJhIjogMX0=" and decoded to the text
\* {"a": 1}
DictExample ==
    (cstage = "decoded" /\ plain = JDict(<<<<97>>>>, <<JInt(1)>>)) =>
        /\ encoded = Returned(<<101, 121, 74, 104, 73, 106, 111, 103, 77, 88, 48, 61>>)
        /\ decoded = Returned(<<123, 34, 97, 34, 58, 32, 49, 125>>)

\* C9 as stated: for every string s, decode(encode(s)) = s, and for every
\* mapping m, encode(m) = encode(json.dumps(m)) and decode(encode(m)) is the
\* text json.dumps(m).  A string with a surrogate code point has no encode.
C9_RoundTripOfEveryString ==
    /\ (Encoded /\ plain.t = "str") =>
          /\ encoded.ok
          /\ cstage = "decoded" => decoded = Returned(plain.text)
    /\ DictGivesItsJsonText

NoSurrogate(text) == \A i \in 1..Len(text) : ~IsSurrogate(text[i])

\* C9, for the strings that UTF-8 can encode: for every string s with no
\* surrogate code point, decode(encode(s)) = s, and encode raises for a
\* string that has one; for every dict m, encode(m) = encode(json.dumps(m))
\* and decode(encode(m)) is the text json.dumps(m), not a mapping.
C9_RoundTripOfEncodableStrings ==
    /\ (Encoded /\ plain.t = "str" /\ NoSurrogate(plain.text)) =>
          /\ encoded.ok
          /\ cstage = "decoded" => decoded = Returned(plain.text)
    /\ (Encoded /\ plain.t = "str" /\ ~NoSurrogate(plain.text)) => cstage = "raised"
    /\ DictGivesItsJsonText
    /\ DictExample

\* U+00E9 U+1F600 has come back from decode(encode(...)), through "w6nwn5iA"
C9_Witness ==
    /\ cstage = "decoded"
    /\ plain = JStr(<<233, 128512>>)
    /\ encoded = Returned(<<119, 54, 110, 119, 110, 53, 105, 65>>)
    /\ decoded = Returned(<<233, 128512>>)


(***************************************************************************)
(* round_time                                                              *)
(***************************************************************************)
\* The datetime that round_time rounds: its argument, or utcnow()
Rounding == IF moment.given THEN moment ELSE now

\* d is a whole number of seconds since the epoch that n divides
IsMultipleOf(d, n) ==
    d.microseconds = 0 /\ ((d.days % n) * (86400 % n) + d.seconds) % n = 0

\* The microseconds from a to b, datetimes no more than minutes apart
MicrosecondsFrom(a, b) ==
    ((b.days - a.days) * 86400 + (b.seconds - a.seconds)) * 1000000
    + (b.microseconds - a.microseconds)

\* r is the multiple of n nearest to d, the later one of two as near, and
\* has the tzinfo of d
NearestMultiple(d, n, r) ==
    /\ IsMultipleOf(r, n)
    /\ 2 * MicrosecondsFrom(d, r) <= n * 1000000
    /\ 2 * MicrosecondsFrom(d, r) > -(n * 1000000)
    /\ IsMultipleOf(d, n) => r = d
    /\ r.tzinfo = d.tzinfo

\* C10: round_time(d, round_to) is a multiple of round_to seconds since the
\* epoch, the one nearest to d (no further than round_to / 2), the later
\* one when d is midway between two, d itself when d is a multiple, and has
\* the tzinfo of d.
C10_NearestMultipleHalfUp ==
    mstage = "done" => NearestMultiple(Rounding, round_to, rounded)

\* Up to 2038-01-19T03:14:07+00:00, where a binary64 tells the microseconds
\* apart, round_time is the nearest multiple
RoundTimeNearestBefore2038 ==
    (mstage = "done" /\ Before(Rounding.days, Rounding.seconds, 24855, 11647)) =>
        NearestMultiple(Rounding, round_to, rounded)

====
